---- MODULE Spec2Model ----
(***************************************************************************)
(* A model of the /test endpoint of app/main.py: the dependency            *)
(* items_dict, which decodes every occurrence of the repeated query        *)
(* parameter `params` with json.loads, the endpoint function operation,    *)
(* which wraps the decoded list, and the framework steps around them       *)
(* (query extraction and validation, the default handling of an exception  *)
(* nobody catches, the rendering of the returned content).                 *)
(*                                                                         *)
(* A raw parameter is a sequence of lexemes (one JSON token each): the     *)
(* decoder below follows the control flow of CPython's json.decoder and    *)
(* json.scanner over lexemes instead of characters.  White space and the   *)
(* literals true, false, null are left out.  NaN stands for the            *)
(* non-standard constants json.loads accepts, 1e999 for a number of the    *)
(* standard grammar that is too large for a float.                         *)
(***************************************************************************)
EXTENDS Integers, Sequences, FiniteSets, TLC

\* ------------------------------------------------------------ bounds

\* Lexemes in one request's query string, the `params=` markers included.
MaxQuery == 5
\* The same, for each of the two concurrent clients of SpecConc.
MaxConcQuery == 4

\* ------------------------------------------------------------ lexemes

ParamKey == "params="
StrLexemes == {"\"a\"", "\"b\"", "\"query_params\""}
NumLexemes == {"1", "1e999"}
\* What a client may put into a raw parameter.
Lexemes == {"[", "]", "{", "}", ",", ":", "1", "1e999", "\"a\"", "NaN"}
\* The smaller alphabet of the concurrent clients.
ConcLexemes == {"1", ",", "NaN"}

\* ------------------------------------------------------------ Python values

NoValue == [t |-> "none", v |-> <<>>]
PyInt(n) == [t |-> "int", v |-> <<n>>]
PyStr(s) == [t |-> "str", v |-> <<s>>]
PyNaN == [t |-> "float", v |-> <<"nan">>]
PyInf == [t |-> "float", v |-> <<"inf">>]
PyList(xs) == [t |-> "list", v |-> xs]
\* A dict is its items in insertion order: <<key, value>> pairs, keys unique.
PyDict(items) == [t |-> "dict", v |-> items]

\* The Python str a string lexeme denotes, and the lexeme written for a str.
StrOf(lex) ==
  IF lex = "\"a\"" THEN "a" ELSE IF lex = "\"b\"" THEN "b" ELSE "query_params"
LexOf(str) ==
  IF str = "a" THEN "\"a\"" ELSE IF str = "b" THEN "\"b\"" ELSE "\"query_params\""

\* dict(pairs): a later pair with the same key replaces the value and keeps
\* the place of the first.
RECURSIVE DictItems(_, _)
DictItems(pairs, items) ==
  IF pairs = <<>> THEN items
  ELSE LET k == pairs[1][1]
           x == pairs[1][2]
           hit == {j \in 1..Len(items) : items[j][1] = k}
           upd == IF hit = {}
                  THEN Append(items, <<k, x>>)
                  ELSE [j \in 1..Len(items) |->
                          IF j \in hit THEN <<k, x>> ELSE items[j]]
       IN DictItems(Tail(pairs), upd)

\* ------------------------------------------------------------ json.loads

\* s[idx:idx+1] of Python, idx counted from 0.
CharAt(s, idx) == IF idx >= 0 /\ idx < Len(s) THEN s[idx + 1] ELSE ""

Ok(x, e) == [ok |-> TRUE, val |-> x, end |-> e, msg |-> ""]
Fail(m, p) == [ok |-> FALSE, val |-> NoValue, end |-> p, msg |-> m]
StopIteration == "StopIteration"

RECURSIVE scan_once(_, _)
RECURSIVE ArrayLoop(_, _, _)
RECURSIVE ObjectLoop(_, _, _)

\* json.decoder.JSONArray, entered after the "[".
JSONArray(s, end) ==
  IF CharAt(s, end) = "]" THEN Ok(PyList(<<>>), end + 1)
  ELSE ArrayLoop(s, end, <<>>)

\* ArrayLoop with every value put in front of the list instead of behind it.
RECURSIVE ArrayLoopPrepend(_, _, _)
ArrayLoopPrepend(s, end, values) ==
  LET r == scan_once(s, end) IN
  IF ~r.ok
  THEN (IF r.msg = StopIteration THEN Fail("Expecting value", r.end) ELSE r)
  ELSE LET nextchar == CharAt(s, r.end) IN
       IF nextchar = "]" THEN Ok(PyList(<<r.val>> \o values), r.end + 1)
       ELSE IF nextchar # "," THEN Fail("Expecting ',' delimiter", r.end)
       ELSE ArrayLoopPrepend(s, r.end + 1, <<r.val>> \o values)

\* The while loop of JSONArray: a value, then "]" or ",".
ArrayLoop(s, end, values) ==
  LET r == scan_once(s, end) IN
  IF ~r.ok
  THEN (IF r.msg = StopIteration THEN Fail("Expecting value", r.end) ELSE r)
  ELSE LET nextchar == CharAt(s, r.end) IN
       IF nextchar = "]" THEN Ok(PyList(Append(values, r.val)), r.end + 1)
       ELSE IF nextchar # "," THEN Fail("Expecting ',' delimiter", r.end)
       ELSE ArrayLoop(s, r.end + 1, Append(values, r.val))

\* json.decoder.JSONObject, entered after the "{".
JSONObject(s, end) ==
  LET nextchar == CharAt(s, end) IN
  IF nextchar = "}" THEN Ok(PyDict(<<>>), end + 1)
  ELSE IF nextchar \notin StrLexemes
  THEN Fail("Expecting property name enclosed in double quotes", end)
  ELSE ObjectLoop(s, end, <<>>)

\* The while loop of JSONObject: at `end` stands a key; then ":", a value,
\* and "}" or "," and the next key.
ObjectLoop(s, end, pairs) ==
  LET key == StrOf(CharAt(s, end)) IN
  IF CharAt(s, end + 1) # ":" THEN Fail("Expecting ':' delimiter", end + 1)
  ELSE LET r == scan_once(s, end + 2) IN
       IF ~r.ok
       THEN (IF r.msg = StopIteration THEN Fail("Expecting value", r.end) ELSE r)
       ELSE LET nextchar == CharAt(s, r.end)
                more == Append(pairs, <<key, r.val>>)
            IN IF nextchar = "}" THEN Ok(PyDict(DictItems(more, <<>>)), r.end + 1)
               ELSE IF nextchar # "," THEN Fail("Expecting ',' delimiter", r.end)
               ELSE IF CharAt(s, r.end + 1) \notin StrLexemes
               THEN Fail("Expecting property name enclosed in double quotes",
                         r.end + 1)
               ELSE ObjectLoop(s, r.end + 1, more)

\* json.scanner.py_make_scanner._scan_once: dispatch on the next lexeme.
scan_once(s, idx) ==
  LET nextchar == CharAt(s, idx) IN
  IF nextchar = "" THEN Fail(StopIteration, idx)
  ELSE IF nextchar \in StrLexemes THEN Ok(PyStr(StrOf(nextchar)), idx + 1)
  ELSE IF nextchar = "{" THEN JSONObject(s, idx + 1)
  ELSE IF nextchar = "[" THEN JSONArray(s, idx + 1)
  ELSE IF nextchar = "1" THEN Ok(PyInt(1), idx + 1)
  ELSE IF nextchar = "1e999" THEN Ok(PyInf, idx + 1)
  ELSE IF nextchar = "NaN" THEN Ok(PyNaN, idx + 1)
  ELSE IF nextchar = "Infinity" THEN Ok(PyInf, idx + 1)
  ELSE Fail(StopIteration, idx)

\* json.loads(s) = JSONDecoder.decode(s): raw_decode from 0, then nothing
\* may follow the value.
JsonLoads(s) ==
  LET r == scan_once(s, 0) IN
  IF ~r.ok
  THEN (IF r.msg = StopIteration THEN Fail("Expecting value", r.end) ELSE r)
  ELSE IF r.end # Len(s) THEN Fail("Extra data", r.end)
  ELSE r

\* ------------------------------------------------------------ json.dumps

\* Whether a value holds a float that is not finite (every float here is
\* NaN or infinity).
RECURSIVE HasNonFinite(_)
HasNonFinite(x) ==
  IF x.t = "float" THEN TRUE
  ELSE IF x.t = "list" THEN \E j \in 1..Len(x.v) : HasNonFinite(x.v[j])
  ELSE IF x.t = "dict" THEN \E j \in 1..Len(x.v) : HasNonFinite(x.v[j][2])
  ELSE FALSE

\* The text json.dumps writes for a value, a float that is not finite
\* written as the constant NaN or Infinity.
RECURSIVE Encode(_)
RECURSIVE EncodeItems(_, _)
EncodeItems(xs, isDict) ==
  IF xs = <<>> THEN <<>>
  ELSE LET one == IF isDict
                  THEN <<LexOf(xs[1][1]), ":">> \o Encode(xs[1][2])
                  ELSE Encode(xs[1])
       IN IF Len(xs) = 1 THEN one
          ELSE one \o <<",">> \o EncodeItems(Tail(xs), isDict)

Encode(x) ==
  IF x.t = "int" THEN <<"1">>
  ELSE IF x.t = "str" THEN <<LexOf(x.v[1])>>
  ELSE IF x.t = "float" THEN (IF x = PyNaN THEN <<"NaN">> ELSE <<"Infinity">>)
  ELSE IF x.t = "list" THEN <<"[">> \o EncodeItems(x.v, FALSE) \o <<"]">>
  ELSE IF x.t = "dict" THEN <<"{">> \o EncodeItems(x.v, TRUE) \o <<"}">>
  ELSE <<"null">>

\* json.dumps(x, allow_nan=...): a float that is not finite raises
\* ValueError unless allowed.
JsonDumps(x, allow_nan) ==
  IF ~allow_nan /\ HasNonFinite(x)
  THEN [ok |-> FALSE, text |-> <<>>]
  ELSE [ok |-> TRUE, text |-> Encode(x)]

\* ------------------------------------------------------------ state

\* Two clients; each holds at most one invocation at a time.
Clients == {"c1", "c2"}

VARIABLES
  pc,       \* where each client's invocation stands
  via,      \* "http": GET /test; "call": items_dict called directly
  params,   \* the raw parameters items_dict was given
  it,       \* how many elements map's iterator has handed out and decoded
  result,   \* the list that list(...) is building, then items_dict's value
  calls,    \* history: the indices json.loads was called on, in order
  exc,      \* the exception in flight
  content,  \* what operation returned
  resp      \* the HTTP response

vars == <<pc, via, params, it, result, calls, exc, content, resp>>

NoExc == [type |-> "", msg |-> "", doc |-> <<>>, pos |-> 0]
\* JSONDecodeError without the document it was raised on.
JSONDecodeErrorNoDoc(msg, doc, pos) ==
  [type |-> "JSONDecodeError", msg |-> msg, doc |-> <<>>, pos |-> pos]
JSONDecodeError(msg, doc, pos) ==
  [type |-> "JSONDecodeError", msg |-> msg, doc |-> doc, pos |-> pos]
NoResp == [status |-> 0, body |-> <<>>]
Response(status, body) == [status |-> status, body |-> body]
\* The bodies of the framework's own error responses, as opaque texts.
ValidationErrorBody == <<"{\"detail\":[{\"loc\":[\"query\",\"params\"],\"msg\":\"field required\"}]}">>
ServerErrorBody == <<"Internal Server Error">>

\* ------------------------------------------------------------ inputs

\* Every text of at most n lexemes over the alphabet.
Texts(alphabet, n) == UNION {[1..k -> alphabet] : k \in 0..n}
\* A query string: nothing, or occurrences of `params=<text>`.
QueriesOver(alphabet, n) ==
  {<<>>} \cup {<<ParamKey>> \o t : t \in Texts(alphabet \cup {ParamKey}, n - 1)}
\* The documents of the endpoint's docstring and of the spec's scenarios,
\* longer than MaxQuery lexemes: objects with members, nested, repeated.
DocA == <<"{", "\"a\"", ":", "\"b\"", "}">>
DocB == <<"{", "\"b\"", ":", "1", "}">>
DocNested ==
  <<"{", "\"a\"", ":", "[", "{", "\"a\"", ":", "\"b\"", "}", ",",
    "[", "1", ",", "\"b\"", "]", ",", "1", "]", "}">>
DocHuge == <<"{", "\"a\"", ":", "[", "1", ",", "1e999", "]", "}">>
DocDupKey == <<"{", "\"a\"", ":", "1", ",", "\"b\"", ":", "1", ",", "\"a\"", ":", "\"b\"", "}">>
DocTrailingComma == <<"{", "\"a\"", ":", "1", ",", "}">>
DocNaN == <<"{", "\"a\"", ":", "NaN", "}">>
ExampleQueries ==
  { <<ParamKey>> \o DocA,
    <<ParamKey>> \o DocB \o <<ParamKey>> \o DocA \o <<ParamKey>> \o DocB,
    <<ParamKey>> \o DocA \o <<ParamKey>> \o DocB \o <<ParamKey>> \o DocNested,
    <<ParamKey>> \o DocDupKey \o <<ParamKey>> \o <<"[", "1", ",", "\"a\"", "]">>,
    <<ParamKey>> \o DocB \o <<ParamKey>> \o DocTrailingComma \o <<ParamKey>> \o DocNaN,
    <<ParamKey>> \o DocNaN \o <<ParamKey>> \o DocA,
    <<ParamKey>> \o DocA \o <<ParamKey>> \o DocHuge }
Queries == QueriesOver(Lexemes, MaxQuery) \cup ExampleQueries
ConcQueries == QueriesOver(ConcLexemes, MaxConcQuery)

\* The values of the occurrences of `params` in a query string, in order.
RECURSIVE Split(_, _)
Split(q, out) ==
  IF q = <<>> THEN out
  ELSE IF q[1] = ParamKey THEN Split(Tail(q), Append(out, <<>>))
  ELSE Split(Tail(q), [out EXCEPT ![Len(out)] = Append(@, q[1])])
Getlist(q) == Split(q, <<>>)

ParamLists == {Getlist(q) : q \in Queries}

\* ------------------------------------------------------------ items_dict

\* list(map(json.loads, params)) run to its end: the list, or the first
\* exception json.loads raises.
RECURSIVE MapLoads(_, _, _)
MapLoads(ps, k, out) ==
  IF k > Len(ps) THEN [ok |-> TRUE, val |-> out, exc |-> NoExc]
  ELSE LET r == JsonLoads(ps[k]) IN
       IF r.ok THEN MapLoads(ps, k + 1, Append(out, r.val))
       ELSE [ok |-> FALSE, val |-> <<>>,
             exc |-> JSONDecodeError(r.msg, ps[k], r.end)]
items_dict(ps) == MapLoads(ps, 1, <<>>)

\* ------------------------------------------------------------ actions

Init ==
  /\ pc = [c \in Clients |-> "idle"]
  /\ via = [c \in Clients |-> "none"]
  /\ params = [c \in Clients |-> <<>>]
  /\ it = [c \in Clients |-> 0]
  /\ result = [c \in Clients |-> <<>>]
  /\ calls = [c \in Clients |-> <<>>]
  /\ exc = [c \in Clients |-> NoExc]
  /\ content = [c \in Clients |-> NoValue]
  /\ resp = [c \in Clients |-> NoResp]

\* GET /test?q arrives.  The framework reads the occurrences of the required
\* query parameter `params`; with none it answers 422 itself, otherwise it
\* calls the dependency items_dict with them.
Get(c, q) ==
  /\ pc[c] = "idle"
  /\ via' = [via EXCEPT ![c] = "http"]
  /\ params' = [params EXCEPT ![c] = Getlist(q)]
  /\ IF Getlist(q) = <<>>
     THEN /\ resp' = [resp EXCEPT ![c] = Response(422, ValidationErrorBody)]
          /\ pc' = [pc EXCEPT ![c] = "responded"]
     ELSE /\ pc' = [pc EXCEPT ![c] = "items_dict"]
          /\ UNCHANGED resp
  /\ UNCHANGED <<it, result, calls, exc, content>>

\* items_dict(ps) called directly, as a function.
Call(c, ps) ==
  /\ pc[c] = "idle"
  /\ via' = [via EXCEPT ![c] = "call"]
  /\ params' = [params EXCEPT ![c] = ps]
  /\ pc' = [pc EXCEPT ![c] = "items_dict"]
  /\ UNCHANGED <<it, result, calls, exc, content, resp>>

\* MapNext that leaves out a value the list already holds.
MapNextDedup(c) ==
  /\ pc[c] = "items_dict"
  /\ it[c] < Len(params[c])
  /\ LET s == params[c][it[c] + 1]
         r == JsonLoads(s)
     IN /\ calls' = [calls EXCEPT ![c] = Append(@, it[c] + 1)]
        /\ IF r.ok
           THEN /\ result' = [result EXCEPT ![c] =
                                IF \E j \in 1..Len(@) : @[j] = r.val
                                THEN @ ELSE Append(@, r.val)]
                /\ it' = [it EXCEPT ![c] = @ + 1]
                /\ UNCHANGED <<pc, exc>>
           ELSE /\ exc' = [exc EXCEPT ![c] = JSONDecodeError(r.msg, s, r.end)]
                /\ pc' = [pc EXCEPT ![c] = "raised"]
                /\ UNCHANGED <<it, result>>
  /\ UNCHANGED <<via, params, content, resp>>

\* MapNext that notes the exception and goes on with the elements after it.
MapNextContinue(c) ==
  /\ pc[c] = "items_dict"
  /\ it[c] < Len(params[c])
  /\ LET s == params[c][it[c] + 1]
         r == JsonLoads(s)
     IN /\ calls' = [calls EXCEPT ![c] = Append(@, it[c] + 1)]
        /\ it' = [it EXCEPT ![c] = @ + 1]
        /\ IF r.ok
           THEN /\ result' = [result EXCEPT ![c] = Append(@, r.val)]
                /\ UNCHANGED <<pc, exc>>
           ELSE /\ exc' = [exc EXCEPT ![c] = JSONDecodeError(r.msg, s, r.end)]
                /\ pc' = [pc EXCEPT ![c] =
                            IF it[c] + 1 = Len(params[c]) THEN "raised" ELSE @]
                /\ UNCHANGED result
  /\ UNCHANGED <<via, params, content, resp>>

\* MapNext that builds every invocation's list in one list of the module.
MapNextShared(c) ==
  /\ pc[c] = "items_dict"
  /\ it[c] < Len(params[c])
  /\ LET s == params[c][it[c] + 1]
         r == JsonLoads(s)
     IN /\ calls' = [calls EXCEPT ![c] = Append(@, it[c] + 1)]
        /\ IF r.ok
           THEN /\ result' = [d \in Clients |->
                                IF pc[d] = "items_dict"
                                THEN Append(result[d], r.val) ELSE result[d]]
                /\ it' = [it EXCEPT ![c] = @ + 1]
                /\ UNCHANGED <<pc, exc>>
           ELSE /\ exc' = [exc EXCEPT ![c] = JSONDecodeError(r.msg, s, r.end)]
                /\ pc' = [pc EXCEPT ![c] = "raised"]
                /\ UNCHANGED <<it, result>>
  /\ UNCHANGED <<via, params, content, resp>>

\* list() asks map for its next element: json.loads of the next raw
\* parameter, appended to the list, or its exception, which ends the call.
MapNext(c) ==
  /\ pc[c] = "items_dict"
  /\ it[c] < Len(params[c])
  /\ LET s == params[c][it[c] + 1]
         r == JsonLoads(s)
     IN /\ calls' = [calls EXCEPT ![c] = Append(@, it[c] + 1)]
        /\ IF r.ok
           THEN /\ result' = [result EXCEPT ![c] = Append(@, r.val)]
                /\ it' = [it EXCEPT ![c] = @ + 1]
                /\ UNCHANGED <<pc, exc>>
           ELSE /\ exc' = [exc EXCEPT ![c] = JSONDecodeError(r.msg, s, r.end)]
                /\ pc' = [pc EXCEPT ![c] = "raised"]
                /\ UNCHANGED <<it, result>>
  /\ UNCHANGED <<via, params, content, resp>>

\* ListReturn that takes no raw parameter at all for an error.
ListReturnRejectEmpty(c) ==
  /\ pc[c] = "items_dict"
  /\ it[c] = Len(params[c])
  /\ IF params[c] = <<>>
     THEN /\ pc' = [pc EXCEPT ![c] = "raised"]
          /\ exc' = [exc EXCEPT ![c] = JSONDecodeError("Expecting value", <<>>, 0)]
     ELSE /\ pc' = [pc EXCEPT ![c] = "returned"]
          /\ UNCHANGED exc
  /\ UNCHANGED <<via, params, it, result, calls, content, resp>>

\* map is exhausted: items_dict returns the list.
ListReturn(c) ==
  /\ pc[c] = "items_dict"
  /\ it[c] = Len(params[c])
  /\ pc' = [pc EXCEPT ![c] = "returned"]
  /\ UNCHANGED <<via, params, it, result, calls, exc, content, resp>>

\* Operation that returns the list itself, not wrapped in an object.
OperationBareList(c) ==
  /\ pc[c] = "returned"
  /\ via[c] = "http"
  /\ content' = [content EXCEPT ![c] = PyList(result[c])]
  /\ pc' = [pc EXCEPT ![c] = "render"]
  /\ UNCHANGED <<via, params, it, result, calls, exc, resp>>

\* operation(query_params) returns {"query_params": query_params}.
Operation(c) ==
  /\ pc[c] = "returned"
  /\ via[c] = "http"
  /\ content' = [content EXCEPT
                   ![c] = PyDict(<< <<"query_params", PyList(result[c])>> >>)]
  /\ pc' = [pc EXCEPT ![c] = "render"]
  /\ UNCHANGED <<via, params, it, result, calls, exc, resp>>

\* The framework renders the content as the JSON body of a 200 response
\* (json.dumps with allow_nan=False); a ValueError from it is caught by
\* nobody and becomes a 500.
Render(c) ==
  /\ pc[c] = "render"
  /\ LET d == JsonDumps(content[c], FALSE) IN
     resp' = [resp EXCEPT ![c] = IF d.ok THEN Response(200, d.text)
                                 ELSE Response(500, ServerErrorBody)]
  /\ pc' = [pc EXCEPT ![c] = "responded"]
  /\ UNCHANGED <<via, params, it, result, calls, exc, content>>

\* The exception of items_dict reaches the framework: the application
\* registers no handler for it, so the answer is 500 Internal Server Error.
ServerError(c) ==
  /\ pc[c] = "raised"
  /\ via[c] = "http"
  /\ resp' = [resp EXCEPT ![c] = Response(500, ServerErrorBody)]
  /\ pc' = [pc EXCEPT ![c] = "responded"]
  /\ UNCHANGED <<via, params, it, result, calls, exc, content>>

\* The invocation is over and everything it held is dropped.
Finished(c) ==
  \/ pc[c] = "responded"
  \/ via[c] = "call" /\ pc[c] \in {"returned", "raised"}
Close(c) ==
  /\ Finished(c)
  /\ pc' = [pc EXCEPT ![c] = "idle"]
  /\ via' = [via EXCEPT ![c] = "none"]
  /\ params' = [params EXCEPT ![c] = <<>>]
  /\ it' = [it EXCEPT ![c] = 0]
  /\ result' = [result EXCEPT ![c] = <<>>]
  /\ calls' = [calls EXCEPT ![c] = <<>>]
  /\ exc' = [exc EXCEPT ![c] = NoExc]
  /\ content' = [content EXCEPT ![c] = NoValue]
  /\ resp' = [resp EXCEPT ![c] = NoResp]

Step(c) ==
  \/ MapNext(c)
  \/ ListReturn(c)
  \/ Operation(c)
  \/ Render(c)
  \/ ServerError(c)
  \/ Close(c)

\* One client, every query of at most MaxQuery lexemes, by HTTP or directly.
Next ==
  \/ pc["c1"] = "idle" /\ \E q \in Queries : Get("c1", q)
  \/ pc["c1"] = "idle" /\ \E ps \in ParamLists : Call("c1", ps)
  \/ Step("c1")

Spec == Init /\ [][Next]_vars

\* Two clients whose requests interleave element by element.
NextConc ==
  \E c \in Clients :
    \/ pc[c] = "idle" /\ \E q \in ConcQueries : Get(c, q)
    \/ Step(c)

SpecConc == Init /\ [][NextConc]_vars

\* ------------------------------------------------------------ standard JSON

\* The grammar of RFC 8259 over lexemes, production by production:
\*   value = number / string / array / object
\*   array = "[" [ value *( "," value ) ] "]"
\*   object = "{" [ member *( "," member ) ] "}",  member = string ":" value
RECURSIVE IsValue(_)
RECURSIVE IsElements(_)
RECURSIVE IsMembers(_)
IsValue(s) ==
  \/ Len(s) = 1 /\ s[1] \in NumLexemes \cup StrLexemes
  \/ /\ Len(s) >= 2
     /\ s[1] = "[" /\ s[Len(s)] = "]"
     /\ (Len(s) = 2 \/ IsElements(SubSeq(s, 2, Len(s) - 1)))
  \/ /\ Len(s) >= 2
     /\ s[1] = "{" /\ s[Len(s)] = "}"
     /\ (Len(s) = 2 \/ IsMembers(SubSeq(s, 2, Len(s) - 1)))
IsElements(s) ==
  \/ IsValue(s)
  \/ \E k \in 2..(Len(s) - 1) :
       /\ s[k] = ","
       /\ IsValue(SubSeq(s, 1, k - 1))
       /\ IsElements(SubSeq(s, k + 1, Len(s)))
IsMember(s) ==
  Len(s) >= 3 /\ s[1] \in StrLexemes /\ s[2] = ":" /\ IsValue(SubSeq(s, 3, Len(s)))
IsMembers(s) ==
  \/ IsMember(s)
  \/ \E k \in 4..(Len(s) - 1) :
       /\ s[k] = ","
       /\ IsMember(SubSeq(s, 1, k - 1))
       /\ IsMembers(SubSeq(s, k + 1, Len(s)))
\* Valid JSON: a document of the standard grammar.
IsStrictJSON(s) == IsValue(s)

AllValid(ps) == \A j \in 1..Len(ps) : IsStrictJSON(ps[j])
\* json.loads raises on s.
Rejects(s) == ~JsonLoads(s).ok
\* The decodings of the first n raw parameters, in their order.
Decoded(ps, n) == [j \in 1..n |-> JsonLoads(ps[j]).val]
\* The invocation has its outcome.
Returned(c) ==
  \/ pc[c] \in {"returned", "render"}
  \/ pc[c] = "responded" /\ params[c] # <<>> /\ exc[c] = NoExc
Failed(c) == exc[c] # NoExc

\* ------------------------------------------------------------ claims

\* C1: for an input sequence of valid JSON strings items_dict does not fail,
\* and what it returns has the input's length and holds at i the decoding of
\* the i-th string: order kept, nothing dropped, merged, deduplicated or
\* sorted.  While the list is built it is the decoded prefix of the input.
C1_LengthAndOrderPreserved ==
  \A c \in Clients :
    AllValid(params[c]) =>
      /\ ~Failed(c) /\ pc[c] # "raised"
      /\ result[c] = Decoded(params[c], it[c])
      /\ Returned(c) => /\ Len(result[c]) = Len(params[c])
                        /\ result[c] = Decoded(params[c], Len(params[c]))

\* A returned list of three valid strings, the first and the third the same
\* string, the second another one.
C1_Witness ==
  \E c \in Clients :
    /\ pc[c] = "returned"
    /\ AllValid(params[c])
    /\ Len(params[c]) = 3
    /\ params[c][1] = params[c][3]
    /\ params[c][1] # params[c][2]
    /\ result[c][1] = result[c][3]

\* C2: an input sequence with a string that is not valid JSON never makes
\* items_dict return a list: the whole batch fails.
C2_AnyInvalidFailsTheBatch ==
  \A c \in Clients :
    (\E j \in 1..Len(params[c]) : ~IsStrictJSON(params[c][j])) => ~Returned(c)

\* C3: a GET /test with an occurrence of params that fails to parse as JSON
\* is answered with a 4xx status.
C3_MalformedAnswered4xx ==
  \A c \in Clients :
    ( /\ via[c] = "http"
      /\ pc[c] = "responded"
      /\ \E j \in 1..Len(params[c]) : Rejects(params[c][j]) )
    => resp[c].status \in 400..499

\* C4: items_dict accepts a string only if it is a document of the standard
\* JSON grammar: every string it has decoded into the list is one.
C4_AcceptsOnlyStandardJSON ==
  \A c \in Clients :
    \A j \in 1..Len(result[c]) : IsStrictJSON(params[c][j])

\* C5: items_dict applied to no raw parameter at all raises nothing, calls
\* json.loads on nothing and returns the empty list.
C5_EmptyInputEmptyOutput ==
  \A c \in Clients :
    (via[c] = "call" /\ params[c] = <<>>) =>
      /\ pc[c] \in {"items_dict", "returned"}
      /\ exc[c] = NoExc
      /\ calls[c] = <<>>
      /\ result[c] = <<>>

\* items_dict, called with an empty sequence, has returned.
C5_Witness ==
  \E c \in Clients :
    via[c] = "call" /\ params[c] = <<>> /\ pc[c] = "returned" /\ result[c] = <<>>

C7_RoundTrip ==
  \A c \in Clients :
    \A j \in 1..Len(result[c]) :
      IsStrictJSON(params[c][j]) =>
        LET text == JsonDumps(result[c][j], TRUE)
            again == JsonLoads(text.text)
        IN text.ok /\ again.ok /\ again.val = result[c][j]

\* A decoded well-formed string whose text written again is another text
\* (a repeated key), and a decoded array of two different values.
C7_Witness ==
  \E c \in Clients :
    /\ Len(result[c]) >= 2
    /\ IsStrictJSON(params[c][1]) /\ IsStrictJSON(params[c][2])
    /\ JsonDumps(result[c][1], TRUE).text # params[c][1]
    /\ result[c][2].t = "list"
    /\ Len(result[c][2].v) = 2
    /\ result[c][2].v[1] # result[c][2].v[2]

\* C8, as claimed: the failure identifies the position of the failing
\* element, so two failures that are the same exception failed at the same
\* position.
C8_FailureIdentifiesPosition ==
  \A c, d \in Clients :
    (Failed(c) /\ Failed(d) /\ exc[c] = exc[d]) => it[c] = it[d]

\* C8, amended: the failure is a JSONDecodeError that carries the text of
\* the failing element and the offset of the error in that text, not the
\* element's position; the failing element is the first element of the
\* input with that text.
C8_FailureCarriesElementText ==
  \A c \in Clients :
    Failed(c) =>
      /\ exc[c].type = "JSONDecodeError"
      /\ it[c] + 1 \in 1..Len(params[c])
      /\ exc[c].doc = params[c][it[c] + 1]
      /\ exc[c].pos \in 0..Len(exc[c].doc)
      /\ \A j \in 1..it[c] : params[c][j] # exc[c].doc

\* A failure on the second element, with a text that is not empty.
C8_Witness ==
  \E c \in Clients :
    Failed(c) /\ it[c] = 1 /\ exc[c].doc # <<>> /\ exc[c].doc = params[c][2]

Local(c) ==
  <<pc[c], via[c], params[c], it[c], result[c], calls[c], exc[c], content[c], resp[c]>>

\* The outcome of each invocation is the one its own input has when run
\* alone, whatever the other client does.
OutcomeIsOwn ==
  \A c \in Clients :
    LET alone == items_dict(params[c]) IN
    /\ pc[c] \in {"returned", "render"} =>
         alone.ok /\ result[c] = alone.val /\ exc[c] = NoExc
    /\ pc[c] = "raised" => ~alone.ok /\ exc[c] = alone.exc
    /\ pc[c] = "responded" =>
         resp[c] = IF params[c] = <<>> THEN Response(422, ValidationErrorBody)
                   ELSE IF ~alone.ok \/ HasNonFinite(PyList(alone.val))
                   THEN Response(500, ServerErrorBody)
                   ELSE Response(200, Encode(PyDict(<< <<"query_params", PyList(alone.val)>> >>)))
    /\ pc[c] = "idle" => Local(c) = <<"idle", "none", <<>>, 0, <<>>, <<>>, NoExc, NoValue, NoResp>>

\* Every step changes what one client holds and nothing of the other.
StepIsLocal ==
  \E c \in Clients : \A d \in Clients \ {c} : Local(d)' = Local(d)

\* C10: under every interleaving of concurrent requests the outcome of each
\* invocation is determined by its own input and is the outcome of running
\* it alone; no step of one invocation changes anything another invocation
\* holds, and an invocation that is over leaves nothing behind.
C10_NoCrossRequestInteraction == []OutcomeIsOwn /\ [][StepIsLocal]_vars

\* Both clients in the middle of decoding, one with a value in its list.
C10_Witness ==
  /\ pc["c1"] = "items_dict" /\ pc["c2"] = "items_dict"
  /\ it["c1"] = 1 /\ Len(params["c1"]) = 2
  /\ it["c2"] = 0 /\ Len(params["c2"]) >= 1
  /\ params["c1"] # params["c2"]

====
